---- MODULE Spec2Model ----
(***************************************************************************)
(* Model of the idletypecheck IDLE extension.                              *)
(*                                                                         *)
(* Two generations of the extension are in the repository:                 *)
(*   src/src/idletypecheck/__init__.py   the self-contained class          *)
(*   src/src/idletypecheck/extension.py  the later module, which delegates *)
(*                                       buffer editing to idletypecheck/  *)
(*                                       utils (not part of the sources).  *)
(*                                                                         *)
(* A Python str is a sequence of one-character strings; the text widget is *)
(* the sequence of its lines (without their newline).                      *)
(***************************************************************************)
EXTENDS Integers, Sequences, FiniteSets, TLC

VARIABLES
    pc,        \* which operation ran last
    input,     \* arguments of the operation that ran last
    output,    \* what it returned
    text,      \* editwin.text: the buffer, a sequence of lines
    before,    \* the buffer when the last operation started
    original,  \* the buffer when the operation before the last started
    previous,  \* pc, input and output of the operation before the last
    steps,     \* number of operations run so far
    saved,     \* editwin.io.get_saved(): the buffer is the file on disk
    undo,      \* number of undo blocks open on editwin.text
    calls      \* what the command that runs has called so far, in order

vars == <<pc, input, output, text, before, original, previous, steps, saved, undo,
          calls>>

\* The editor window around the buffer, which the parser, add_comments and
\* get_pointers do not touch by themselves
window == <<saved, undo, calls>>

----------------------------------------------------------------------------
(* Python str primitives                                                   *)

Whitespace == {" ", "\t", "\n", "\f"}
Lowercase == {"a", "b", "c", "d", "e", "f", "g", "h", "i", "j", "k", "l", "m",
              "n", "o", "p", "q", "r", "s", "t", "u", "v", "w", "x", "y", "z"}
DigitChars == <<"0", "1", "2", "3", "4", "5", "6", "7", "8", "9">>
Digits == {DigitChars[i] : i \in 1..10}
DigitValue(c) == (CHOOSE i \in 1..10 : DigitChars[i] = c) - 1

\* s.startswith(p)
startswith(s, p) == Len(p) <= Len(s) /\ SubSeq(s, 1, Len(p)) = p

\* s.find(p, start): 0-based offset of the first occurrence of p in s at or
\* after start, -1 if none
find_from(s, p, start) ==
    LET hits == {i \in start..(Len(s) - Len(p)) : SubSeq(s, i + 1, i + Len(p)) = p}
    IN  IF hits = {} THEN -1 ELSE CHOOSE i \in hits : \A j \in hits : i <= j

\* s.find(p)
find(s, p) == find_from(s, p, 0)

\* s.rfind(p, 0, end + len(p)): the last occurrence of p that starts at or
\* before end
RECURSIVE rfind_from(_, _, _)
rfind_from(s, p, end) ==
    IF end < 0 THEN -1
    ELSE IF SubSeq(s, end + 1, end + Len(p)) = p THEN end
    ELSE rfind_from(s, p, end - 1)

\* s.rfind(p)
rfind(s, p) == rfind_from(s, p, Len(s) - Len(p))

\* p in s
contains(s, p) == find(s, p) >= 0

\* s[n:]
from(s, n) == SubSeq(s, n + 1, Len(s))

\* s[:n]
upto(s, n) == SubSeq(s, 1, n)

\* s.count(p): the number of non-overlapping occurrences
RECURSIVE count(_, _)
count(s, p) ==
    LET at == find(s, p) IN
    IF at < 0 THEN 0 ELSE 1 + count(from(s, at + Len(p)), p)

\* s.split(p, maxsplit); maxsplit = -1 splits at every occurrence
RECURSIVE split(_, _, _)
split(s, p, maxsplit) ==
    LET at == IF maxsplit = 0 THEN -1 ELSE find(s, p) IN
    IF at < 0 THEN <<s>>
    ELSE <<upto(s, at)>>
         \o split(from(s, at + Len(p)), p,
                  IF maxsplit < 0 THEN maxsplit ELSE maxsplit - 1)

\* s.rsplit(p, maxsplit)
RECURSIVE rsplit(_, _, _)
rsplit(s, p, maxsplit) ==
    LET at == IF maxsplit = 0 THEN -1 ELSE rfind(s, p) IN
    IF at < 0 THEN <<s>>
    ELSE rsplit(upto(s, at), p, IF maxsplit < 0 THEN maxsplit ELSE maxsplit - 1)
         \o <<from(s, at + Len(p))>>

\* The line boundaries of str.splitlines() that occur in the model: the newline
\* and the form feed (Python also splits at "\r", "\v", "\x1c".."\x1e", "\x85",
\* "\u2028" and "\u2029"; the text widget ends a line at "\n" only)
LineBoundaries == {"\n", "\f"}

\* s.splitlines(): a line ends at each line boundary; no empty last line after
\* a final boundary
RECURSIVE splitlines(_)
splitlines(s) ==
    LET ends == {i \in 1..Len(s) : s[i] \in LineBoundaries} IN
    IF s = <<>> THEN <<>>
    ELSE IF ends = {} THEN <<s>>
    ELSE LET at == CHOOSE i \in ends : \A j \in ends : i <= j
         IN  <<upto(s, at - 1)>> \o splitlines(from(s, at))

\* sep.join(parts)
RECURSIVE join(_, _)
join(sep, parts) ==
    IF parts = <<>> THEN <<>>
    ELSE IF Len(parts) = 1 THEN parts[1]
    ELSE parts[1] \o sep \o join(sep, Tail(parts))

\* s.lstrip()
RECURSIVE lstrip(_)
lstrip(s) == IF s # <<>> /\ s[1] \in Whitespace THEN lstrip(Tail(s)) ELSE s

\* s.rstrip()
RECURSIVE rstrip(_)
rstrip(s) ==
    IF s # <<>> /\ s[Len(s)] \in Whitespace THEN rstrip(upto(s, Len(s) - 1)) ELSE s

\* s.strip()
strip(s) == lstrip(rstrip(s))

\* c * n
RECURSIVE repeat(_, _)
repeat(c, n) == IF n <= 0 THEN <<>> ELSE <<c>> \o repeat(c, n - 1)

\* value of a string of decimal digits
RECURSIVE DecimalValue(_)
DecimalValue(s) ==
    IF s = <<>> THEN 0
    ELSE 10 * DecimalValue(upto(s, Len(s) - 1)) + DigitValue(s[Len(s)])

IsDecimal(s) == s # <<>> /\ \A i \in 1..Len(s) : s[i] \in Digits

\* int(s): surrounding whitespace and one sign are accepted; anything else
\* raises ValueError
IntBody(s) == IF strip(s) # <<>> /\ strip(s)[1] \in {"-", "+"}
              THEN Tail(strip(s)) ELSE strip(s)
IntOk(s) == IsDecimal(IntBody(s))
int(s) == IF strip(s)[1] = "-" THEN 0 - DecimalValue(IntBody(s))
          ELSE DecimalValue(IntBody(s))

\* What a call gave: the value it returned, or the exception it raised
Return(value) == [raised |-> "", value |-> value]
ValueError == [raised |-> "ValueError"]
Raised(result) == result.raised # ""

----------------------------------------------------------------------------
(* Report parser                                                           *)

separator == <<":", " ">>
error == <<"e", "r", "r", "o", "r">>
note == <<"n", "o", "t", "e">>
unrecognized == <<"u", "n", "r", "e", "c", "o", "g", "n", "i", "z", "e", "d">>

\* r"  \[[a-z\-]+\]\s*$" matched at the very start of s
error_type_match(s) ==
    /\ startswith(s, <<" ", " ", "[">>)
    /\ LET close == find(s, <<"]">>) IN
       /\ close > 3
       /\ \A i \in 4..close : s[i] \in Lowercase \cup {"-"}
       /\ \A i \in (close + 2)..Len(s) : s[i] \in Whitespace

\* error_type.search(text).start(), -1 when search returns None
RECURSIVE error_type_search_from(_, _)
error_type_search_from(s, start) ==
    IF start > Len(s) THEN -1
    ELSE IF error_type_match(from(s, start)) THEN start
    ELSE error_type_search_from(s, start + 1)

error_type_search(s) == error_type_search_from(s, 0)

\* Mutant: the error code keeps its brackets
error_type_group1_bracketed(s) ==
    LET g == from(s, error_type_search(s)) IN SubSeq(g, 3, find(g, <<"]">>) + 1)

\* comment_type.group(1)
error_type_group1(s) ==
    LET g == from(s, error_type_search(s)) IN SubSeq(g, 4, find(g, <<"]">>))

\* comment_type.group(0)[3:-1]
error_type_group0_slice(s) ==
    LET g == from(s, error_type_search(s)) IN from(upto(g, Len(g) - 1), 3)

\* comment.count(": ") < 2 is false: the line has a location prefix
located(comment) == count(comment, separator) >= 2

\* The text after the location prefix: [type, text] of one report line
message_parts(comment) ==
    LET parts == split(comment, separator, 2) IN
    IF Len(parts) = 3 THEN [type |-> parts[2], text |-> parts[3]]
    ELSE [type |-> unrecognized, text |-> comment]

\* __init__.py: position = where.split(":")
idletypecheck_position(comment) == split(split(comment, separator, 2)[1], <<":">>, -1)

\* __init__.py: one of the int() calls the line reaches raises ValueError
idletypecheck_raises(comment) ==
    LET position == idletypecheck_position(comment) IN
    /\ located(comment)
    /\ \/ Len(position) > 1 /\ ~IntOk(position[2])
       \/ Len(position) > 2 /\ ~IntOk(position[3])
       \/ Len(position) > 4 /\ ~IntOk(position[4])
       \/ /\ Len(position) > 4 /\ IntOk(position[2]) /\ IntOk(position[4])
          /\ int(position[4]) = int(position[2])
          /\ ~IntOk(position[5])

\* __init__.py: filename, line, col, line_end, col_end of one report line
idletypecheck_location(comment, default_file, default_line) ==
    LET position == idletypecheck_position(comment)
        line == IF located(comment) /\ Len(position) > 1 THEN int(position[2])
                ELSE default_line
        col == IF located(comment) /\ Len(position) > 2 THEN int(position[3]) ELSE 0
        spanned == located(comment) /\ Len(position) > 4 /\ int(position[4]) = line
    IN  [file |-> IF located(comment) THEN position[1] ELSE default_file,
         line |-> line, column |-> col, line_end |-> line,
         column_end |-> IF spanned THEN int(position[5]) ELSE col]

\* __init__.py: mtype and text after the error code tag is moved
idletypecheck_type(comment) ==
    LET parts == message_parts(comment) IN
    IF error_type_search(parts.text) >= 0
    THEN error_type_group0_slice(parts.text) \o <<" ">> \o parts.type
    ELSE parts.type

\* text[: comment_type.start()]
text_without_tag(comment) ==
    LET parts == message_parts(comment) IN
    IF error_type_search(parts.text) >= 0
    THEN upto(parts.text, error_type_search(parts.text))
    ELSE parts.text

\* Body of the loop of idletypecheck.parse_comments for one line that does
\* not raise: the message dictionary
idletypecheck_parse_line(comment, default_file, default_line) ==
    LET where == idletypecheck_location(comment, default_file, default_line) IN
    [file |-> where.file, line |-> where.line, column |-> where.column,
     line_end |-> where.line_end, column_end |-> where.column_end,
     type |-> idletypecheck_type(comment),
     message |-> idletypecheck_type(comment) \o separator \o text_without_tag(comment)]

\* The files dictionary: file name -> its messages in encounter order
GroupByFile(messages) ==
    [f \in {messages[i].file : i \in 1..Len(messages)} |->
        SelectSeq(messages, LAMBDA m : m.file = f)]

\* idletypecheck.parse_comments(comments, default_file, default_line):
\* ValueError when a line raises, else the files dictionary
idletypecheck_parse_comments(comments, default_file, default_line) ==
    LET report == splitlines(comments) IN
    IF \E i \in 1..Len(report) : idletypecheck_raises(report[i]) THEN ValueError
    ELSE Return(GroupByFile([i \in 1..Len(report) |->
            idletypecheck_parse_line(report[i], default_file, default_line)]))

\* extension.py: where, after the win32 drive letter is cut off
parse_where(output_line, win32) ==
    LET where == split(output_line, separator, 2)[1] IN
    IF win32 THEN split(where, <<":">>, 1)[2] ELSE where

\* extension.py: windows_drive_letter
parse_drive(output_line, win32) ==
    IF win32 THEN split(split(output_line, separator, 2)[1], <<":">>, 1)[1] \o <<":">>
    ELSE <<>>

\* extension.py: the tuple unpacking or one of the int() calls raises ValueError
parse_raises(output_line, win32) ==
    /\ located(output_line)
    /\ \/ win32 /\ Len(split(split(output_line, separator, 2)[1], <<":">>, 1)) < 2
       \/ LET position == rsplit(parse_where(output_line, win32), <<":">>, 4) IN
          \/ Len(position) > 1 /\ ~IntOk(position[2])
          \/ Len(position) > 2 /\ ~IntOk(position[3])
          \/ Len(position) > 4 /\ ~IntOk(position[4])
          \/ Len(position) > 4 /\ ~IntOk(position[5])

\* The comment of one report line, utils.Comment(file=filename, line=line,
\* contents=..., column=col, line_end=line_end, column_end=col_end)
Comment(file, line, contents, column, line_end, column_end) ==
    [file |-> file, line |-> line, contents |-> contents, column |-> column,
     line_end |-> line_end, column_end |-> column_end]

\* extension.py: filename, line, col, line_end, col_end of one report line
parse_location(output_line, default_file, default_line, win32) ==
    LET position == rsplit(parse_where(output_line, win32), <<":">>, 4)
        line == IF located(output_line) /\ Len(position) > 1 THEN int(position[2])
                ELSE default_line
        col == IF located(output_line) /\ Len(position) > 2 THEN int(position[3]) ELSE 0
        spanned == located(output_line) /\ Len(position) > 4
    IN  [file |-> IF located(output_line)
                  THEN parse_drive(output_line, win32) \o position[1]
                  ELSE default_file,
         line |-> line, column |-> col,
         line_end |-> IF spanned THEN int(position[4]) ELSE line,
         column_end |-> IF spanned THEN int(position[5]) ELSE col]

\* extension.py: msg_type after the error code tag is moved
parse_type(output_line) ==
    LET parts == message_parts(output_line) IN
    IF error_type_search(parts.text) >= 0
    THEN error_type_group1(parts.text) \o <<" ">> \o parts.type
    ELSE parts.type

\* Mutant: a line without location keeps its raw text as contents
parse_contents_raw(output_line) ==
    IF located(output_line)
    THEN parse_type(output_line) \o separator \o text_without_tag(output_line)
    ELSE output_line

\* Mutant: the location prefix is kept in front of the contents
parse_contents_with_where(output_line) ==
    IF located(output_line)
    THEN split(output_line, separator, 2)[1] \o separator
         \o parse_type(output_line) \o separator \o text_without_tag(output_line)
    ELSE parse_type(output_line) \o separator \o text_without_tag(output_line)

\* extension.py: contents=f"{msg_type}: {text}"
parse_contents(output_line) ==
    parse_type(output_line) \o separator \o text_without_tag(output_line)

\* Body of the loop of extension.parse_comments for one non-blank line that
\* does not raise
parse_line(output_line, default_file, default_line, win32) ==
    LET where == parse_location(output_line, default_file, default_line, win32) IN
    Comment(where.file, where.line, parse_contents(output_line), where.column,
            where.line_end, where.column_end)

\* extension.parse_comments(mypy_output, default_file, default_line)
parse_comments(mypy_output, default_file, default_line, win32) ==
    LET report == SelectSeq(splitlines(mypy_output), LAMBDA l : strip(l) # <<>>) IN
    IF \E i \in 1..Len(report) : parse_raises(report[i], win32) THEN ValueError
    ELSE Return(GroupByFile([i \in 1..Len(report) |->
            parse_line(report[i], default_file, default_line, win32)]))

\* f"Another file has errors: {filename}" (__init__.py), f"Another file has
\* errors: {filename!r}" (extension.py)
another_file == <<"A", "n", "o", "t", "h", "e", "r", " ", "f", "i", "l", "e", " ",
                  "h", "a", "s", " ", "e", "r", "r", "o", "r", "s", ":", " ">>

\* sorted(ints)
RECURSIVE sorted(_)
sorted(S) ==
    IF S = {} THEN <<>>
    ELSE LET least == CHOOSE x \in S : \A y \in S : x <= y
         IN  <<least>> \o sorted(S \ {least})

\* UNKNOWN_FILE
UNKNOWN_FILE == <<"<", "u", "n", "k", "n", "o", "w", "n", " ", "f", "i", "l", "e", ">">>

\* The keys of the files dictionary in the order a dict keeps them: the order
\* in which the report names the files first
RECURSIVE file_order(_)
file_order(files) ==
    IF files = <<>> THEN <<>>
    ELSE LET rest == file_order(upto(files, Len(files) - 1)) IN
         IF \E i \in 1..Len(rest) : rest[i] = files[Len(files)] THEN rest
         ELSE rest \o <<files[Len(files)]>>

\* extension.parse_comments: the keys of its result in dict order
parse_files(mypy_output, default_file, default_line, win32) ==
    LET report == SelectSeq(splitlines(mypy_output), LAMBDA l : strip(l) # <<>>) IN
    file_order([i \in 1..Len(report) |->
        parse_location(report[i], default_file, default_line, win32).file])

\* repr(filename) of a str without quotes and backslashes
repr(filename) == <<"'">> \o filename \o <<"'">>

\* add_mypy_messages: utils.Comment(file=only_filename,
\* line=other_files_comment_line, contents=f"Another file has errors:
\* {filename!r}", column_end=0)
other_file_comment(only_filename, other_files_comment_line, filename) ==
    [file |-> only_filename, line |-> other_files_comment_line,
     contents |-> another_file \o repr(filename), column_end |-> 0]

\* add_mypy_messages: other_files_comment_line
other_files_comment_line(file_comments, only_filename, start_line) ==
    IF only_filename \notin DOMAIN file_comments THEN start_line
    ELSE LET lines == {file_comments[only_filename][i].line :
                          i \in 1..Len(file_comments[only_filename])}
         IN  CHOOSE least \in lines : \A other \in lines : least <= other

\* Mutant: comments are added for every file of the report
typecomment_all_files == FALSE

\* idletypecheck.typecomment_only_current_file
typecomment_only_current_file == TRUE

\* add_mypy_messages: file_comments[only_filename] after the comments about
\* other files are appended
with_other_files(file_comments, keys, only_filename, start_line) ==
    LET others == SelectSeq(keys, LAMBDA f : f # only_filename)
        line == other_files_comment_line(file_comments, only_filename, start_line)
    IN  (IF only_filename \in DOMAIN file_comments THEN file_comments[only_filename]
         ELSE <<>>)
        \o [i \in 1..Len(others) |-> other_file_comment(only_filename, line, others[i])]

\* add_type_comments_for_file: the comments line by line in sorted order, as
\* they are handed to self.add_comments (which, like self.get_pointers, the
\* class inherits from utils.BaseExtension)
RECURSIVE all_messages(_, _)
all_messages(comments, lines) ==
    IF lines = <<>> THEN <<>>
    ELSE SelectSeq(comments, LAMBDA c : c.line = Head(lines))
         \o all_messages(comments, Tail(lines))

add_type_comments_for_file(comments) ==
    all_messages(comments, sorted({comments[i].line : i \in 1..Len(comments)}))

\* idletypecheck.add_mypy_messages(start_line, mypy_output, only_filename,
\* add_all_override) with os.path.abspath(self.files.filename) = default_file:
\* ValueError when the report does not parse, else for every file it works on
\* the comments it hands to add_type_comments_for_file
add_mypy_messages(start_line, mypy_output, only_filename, add_all_override, default_file, win32) ==
    LET parsed == parse_comments(mypy_output, default_file, start_line, win32)
        keys == parse_files(mypy_output, default_file, start_line, win32)
    IN  IF Raised(parsed) THEN [raised |-> "ValueError", handed |-> <<>>]
        ELSE IF typecomment_only_current_file /\ ~add_all_override
        THEN [raised |-> "",
              handed |-> [f \in {only_filename} \ {UNKNOWN_FILE} |->
                            add_type_comments_for_file(
                                with_other_files(parsed.value, keys, only_filename,
                                                 start_line))]]
        ELSE [raised |-> "",
              handed |-> [f \in DOMAIN parsed.value \ {UNKNOWN_FILE} |->
                            add_type_comments_for_file(parsed.value[f])]]

----------------------------------------------------------------------------
(* The text widget, editwin.text                                           *)
(*                                                                         *)
(* A buffer is the sequence of its lines; the widget holds them joined by  *)
(* "\n" and followed by a last newline that cannot be deleted.  insert and *)
(* delete reach the widget through idlelib's undo delegator, which moves   *)
(* an index behind the last newline back in front of it.                   *)

\* text.get("line.0", "line+1.0"): line numbers below 1 and behind the last
\* line address nothing
text_get_line(buffer, line) ==
    IF line >= 1 /\ line <= Len(buffer) THEN buffer[line] \o <<"\n">> ELSE <<>>

\* text.get("0.0", text.index("end"))
text_get_all(buffer) == join(<<"\n">>, buffer) \o <<"\n">>

\* text.delete("line.0", "line+1.0"): the last line keeps its newline
text_delete_line(buffer, line) ==
    IF line < 1 \/ line > Len(buffer) THEN buffer
    ELSE IF line = Len(buffer) THEN upto(buffer, line - 1) \o <<<<>>>>
    ELSE upto(buffer, line - 1) \o from(buffer, line)

\* text.delete("0.0", text.index("end"))
text_delete_all(buffer) == <<<<>>>>

\* text.insert("line.0", chars): behind the last line the characters go to
\* the end of the last line
text_insert(buffer, line, chars) ==
    LET pieces == split(chars, <<"\n">>, -1)
        at == IF line < 1 THEN 1 ELSE line
        target == IF at > Len(buffer) THEN <<>> ELSE buffer[at]
        head == IF at > Len(buffer) THEN buffer[Len(buffer)] ELSE <<>>
        keep == IF at > Len(buffer) THEN upto(buffer, Len(buffer) - 1)
                ELSE upto(buffer, at - 1)
    IN  keep
        \o (IF Len(pieces) = 1 THEN <<head \o pieces[1] \o target>>
            ELSE <<head \o pieces[1]>> \o SubSeq(pieces, 2, Len(pieces) - 1)
                 \o <<pieces[Len(pieces)] \o target>>)
        \o (IF at > Len(buffer) THEN <<>> ELSE from(buffer, at))

\* The calls that change the widget, as the operation made them
DeleteCall(index1, index2) == [call |-> "delete", index1 |-> index1, index2 |-> index2]
InsertCall(index, chars) == [call |-> "insert", index |-> index, chars |-> chars]

----------------------------------------------------------------------------
(* Comments in the buffer (__init__.py)                                    *)

\* idletypecheck.comment
comment == <<"#", " ", "t", "y", "p", "e", "c", "h", "e", "c", "k", ":", " ">>

\* get_line_indent(text, char=" ")
get_line_indent(chars) ==
    LET parts == split(chars, <<" ">>, -1)
        filled == {idx \in 1..Len(parts) : parts[idx] # <<>>}
    IN  IF filled = {} THEN 0
        ELSE (CHOOSE idx \in filled : \A other \in filled : idx <= other) - 1

\* idletypecheck.get_msg_line(indent, msg)
get_msg_line(indent, msg) == repeat(" ", indent) \o comment \o msg

\* idletypecheck.get_line(line)
get_line(buffer, line) == text_get_line(buffer, line)

\* idletypecheck.comment_exists(line, text)
comment_exists(buffer, line, msg) ==
    contains(get_line(buffer, line - 1), get_msg_line(0, msg))

\* The lines add_comment looks at for a comment that is already there
exists_window(line, max_exist_up) == {line - (i - 1) : i \in 0..max_exist_up}

\* idletypecheck.add_comment(message, max_exist_up): the buffer afterwards,
\* the value returned and the widget calls made
add_comment(buffer, message, max_exist_up) ==
    IF \E line \in exists_window(message.line, max_exist_up) :
            comment_exists(buffer, line, message.message)
    THEN [buffer |-> buffer, added |-> FALSE, calls |-> <<>>]
    ELSE LET chars == get_line(buffer, message.line)
             new == get_msg_line(get_line_indent(chars), message.message)
                    \o <<"\n">> \o chars
         IN  [buffer |-> text_insert(text_delete_line(buffer, message.line),
                                     message.line, new),
              added |-> TRUE,
              calls |-> <<DeleteCall(message.line, message.line + 1),
                          InsertCall(message.line, new)>>]

\* Mutant: the sequence in the order it has
in_given_order(sequence) == sequence

\* reversed(sequence)
RECURSIVE reversed(_)
reversed(sequence) ==
    IF sequence = <<>> THEN <<>>
    ELSE reversed(Tail(sequence)) \o <<Head(sequence)>>

\* get_pointers: range(start, end + 1) of every message
pointer_columns(messages, lastcol) ==
    UNION {messages[i].column..(messages[i].column_end - lastcol) : i \in 1..Len(messages)}

\* get_pointers: the loop over sorted(columns)
RECURSIVE pointer_line(_, _, _)
pointer_line(columns, lastcol, line_len) ==
    IF columns = <<>> \/ Head(columns) > line_len THEN <<>>
    ELSE repeat(" ", Head(columns) - lastcol - 1) \o <<"^">>
         \o pointer_line(Tail(columns), Head(columns), line_len)

None == [none |-> TRUE]

\* idletypecheck.get_pointers(messages)
get_pointers(buffer, messages) ==
    LET line == messages[1].line + 1
        line_text == get_line(buffer, line)
        lastcol == Len(comment) + get_line_indent(line_text) + 1
        new_line == pointer_line(sorted(pointer_columns(messages, lastcol)), lastcol,
                                 Len(line_text))
    IN  IF strip(new_line) = <<>> THEN None
        ELSE [line |-> line, message |-> new_line]

\* add_comments: the message added for another file that has messages
another_file_message(target_filename, first, filename) ==
    [file |-> target_filename, line |-> first, column |-> 0, column_end |-> 0,
     type |-> note, message |-> another_file \o filename]

\* add_comments: the messages of the target file, as parsed
target_messages(files, target_filename) ==
    IF target_filename \in DOMAIN files THEN files[target_filename] ELSE <<>>

\* add_comments: the keys of line_data before the starting line is added
target_lines(files, target_filename) ==
    {target_messages(files, target_filename)[i].line :
        i \in 1..Len(target_messages(files, target_filename))}

\* Mutant: the lines are worked on from the lowest to the highest
line_order_ascending(files, target_filename, start_line) ==
    IF target_lines(files, target_filename) = {} THEN <<start_line>>
    ELSE sorted(target_lines(files, target_filename))

\* add_comments: line_order, list(sorted(line_data, reverse=True)) and then
\* the starting line when no message of the target file has a line
line_order(files, target_filename, start_line) ==
    IF target_lines(files, target_filename) = {} THEN <<start_line>>
    ELSE reversed(sorted(target_lines(files, target_filename)))

\* add_comments: first
first_line(files, target_filename, start_line) ==
    line_order(files, target_filename, start_line)
        [Len(line_order(files, target_filename, start_line))]

\* Mutant: one notice, whatever the number of other files
line_messages_one_notice(files, target_filename, start_line, others, line) ==
    SelectSeq(target_messages(files, target_filename), LAMBDA m : m.line = line)
    \o (IF line = first_line(files, target_filename, start_line) /\ others # <<>>
        THEN <<another_file_message(target_filename, line, others[1])>>
        ELSE <<>>)

\* add_comments: line_data[line]; others lists the other files in the order
\* the set of them is iterated
line_messages(files, target_filename, start_line, others, line) ==
    SelectSeq(target_messages(files, target_filename), LAMBDA m : m.line = line)
    \o (IF line = first_line(files, target_filename, start_line)
        THEN [i \in 1..Len(others) |->
                another_file_message(target_filename, line, others[i])]
        ELSE <<>>)

\* add_comments: for message in reversed(messages): add_comment(message, total)
RECURSIVE add_block(_, _, _, _)
add_block(state, messages, total, line) ==
    IF messages = <<>> THEN state
    ELSE LET done == add_comment(state.buffer, Head(messages), total)
         IN  add_block([buffer |-> done.buffer,
                        comments |-> IF done.added THEN state.comments \o <<line>>
                                     ELSE state.comments,
                        calls |-> state.calls \o done.calls],
                       Tail(messages), total, line)

\* add_comments: the messages of one line with the pointers of the line
with_pointers(buffer, messages) ==
    IF get_pointers(buffer, messages) = None THEN messages
    ELSE messages \o <<get_pointers(buffer, messages)>>

\* add_comments: for line in line_order
RECURSIVE add_lines(_, _, _, _, _, _)
add_lines(state, files, target_filename, start_line, others, order) ==
    IF order = <<>> THEN state
    ELSE LET messages == line_messages(files, target_filename, start_line, others,
                                       Head(order))
             block == with_pointers(state.buffer, messages)
         IN  add_lines(IF messages = <<>> THEN state
                       ELSE add_block(state, reversed(block), Len(block), Head(order)),
                       files, target_filename, start_line, others, Tail(order))

\* The orders in which a set can be iterated
RECURSIVE Orders(_)
Orders(S) ==
    IF S = {} THEN {<<>>}
    ELSE UNION {{<<x>> \o rest : rest \in Orders(S \ {x})} : x \in S}

\* add_comments: return comments, with the buffer, the widget calls and the
\* files dictionary of the run
comments_added(done, parsed) ==
    [buffer |-> done.buffer, result |-> Return(done.comments), calls |-> done.calls,
     files |-> parsed]

\* add_comments once self.parse_comments has returned or raised
add_parsed_comments(buffer, target_filename, start_line, others, parsed) ==
    IF Raised(parsed)
    THEN [buffer |-> buffer, result |-> parsed, calls |-> <<>>, files |-> parsed]
    ELSE comments_added(
             add_lines([buffer |-> buffer, comments |-> <<>>, calls |-> <<>>],
                       parsed.value, target_filename, start_line, others,
                       line_order(parsed.value, target_filename, start_line)),
             parsed)

\* idletypecheck.add_comments(target_filename, start_line, normal), with
\* os.path.abspath(self.files.filename) = filename: the buffer afterwards, the
\* result, the widget calls and the files dictionary it parsed
add_comments(buffer, filename, target_filename, start_line, normal, others) ==
    add_parsed_comments(buffer, target_filename, start_line, others,
                        idletypecheck_parse_comments(normal, filename, start_line))

\* add_comments: {f for f in files if f != target_filename}
other_files(normal, filename, target_filename, start_line) ==
    LET parsed == idletypecheck_parse_comments(normal, filename, start_line) IN
    IF Raised(parsed) THEN {} ELSE DOMAIN parsed.value \ {target_filename}

\* idletypecheck.remove_all_type_comments(event)
remove_all_type_comments(buffer) ==
    LET lines == splitlines(text_get_all(buffer))
        kept == SelectSeq(lines, LAMBDA l : ~startswith(lstrip(l), comment))
        chars == join(<<"\n">>, kept)
    IN  IF kept = lines
        THEN [buffer |-> buffer, result |-> Return("break"), calls |-> <<>>]
        ELSE [buffer |-> text_insert(text_delete_all(buffer), 0, chars),
              result |-> Return("break"),
              calls |-> <<DeleteCall(0, Len(buffer) + 1), InsertCall(0, chars)>>]

----------------------------------------------------------------------------
(* Inputs of the report parser                                             *)

\* str(n) of a non-negative int
RECURSIVE str(_)
str(n) == IF n < 10 THEN <<DigitChars[n + 1]>>
          ELSE str(n \div 10) \o <<DigitChars[(n % 10) + 1]>>

MaxShort == 3

\* os.path.abspath of the open file and of two other files
OpenFile(win32) == IF win32 THEN <<"C", ":", "/", "a">> ELSE <<"/", "a">>
OtherFiles(win32) == IF win32 THEN {<<"C", ":", "/", "b">>, <<"C", ":", "/", "c">>}
                     ELSE {<<"/", "b">>, <<"/", "c">>}

\* Report lines "path:line:col: severity: text  [tag]" and, with tag <<>>,
\* "path:line:col: severity: text"
WellFormed(win32) ==
    [path : {OpenFile(win32)} \cup OtherFiles(win32), line : {1, 10}, col : {0, 3},
     severity : {error, note},
     text : {<<"m">>, <<"m", ":", " ", "n">>},
     tag : {<<>>, <<"a", "-", "b">>}]

Render(w) ==
    w.path \o <<":">> \o str(w.line) \o <<":">> \o str(w.col) \o separator
    \o w.severity \o separator \o w.text
    \o (IF w.tag = <<>> THEN <<>> ELSE <<" ", " ", "[">> \o w.tag \o <<"]">>)

\* Location prefixes of other shapes: fewer or more fields, fields that are
\* no numbers, no path at all
OddWheres ==
    {<<"/", "a">>, <<"/", "a", ":", "2">>, <<"/", "a", ":", "2", ":", "1", ":", "2", ":", "4">>,
     <<"/", "a", ":", "2", ":", "1", ":", "3", ":", "4">>,
     <<"/", "a", ":", "2", ":", "1", ":", "3">>,
     <<"/", "a", ":", "x">>, <<"/", "a", ":", "1", ":", "x">>,
     <<"/", "a", ":", "2", ":", "1", ":", "2", ":", "x">>,
     <<"/", "a", ":", "2", ":", "1", ":", "3", ":", "x">>,
     <<"C", ":", "/", "a", ":", "2", ":", "1">>, <<"C", ":", "/", "a">>,
     <<"/", "a", ":", " ", "2">>, <<"/", "a", ":", "-", "1">>,
     <<"a", ":", "b", ":", "1", ":", "2", ":", "3", ":", "4">>, <<>>}

OddTexts ==
    {<<"m">>, <<>>, <<"m", " ", " ", "[", "t", "]", " ">>, <<"m", " ", " ", "[", "T", "]">>,
     <<"m", " ", " ", " ", "[", "t", "]">>, <<"m", " ", " ", "[", "]">>,
     <<"m", " ", " ", "[", "s", "]", " ", " ", "[", "t", "]">>}

OddLines ==
    {w \o separator \o error \o separator \o t : w \in OddWheres, t \in OddTexts}

\* Every string of at most MaxShort characters over a small alphabet
RECURSIVE Strings(_, _)
Strings(alphabet, n) ==
    IF n = 0 THEN {<<>>}
    ELSE Strings(alphabet, n - 1)
         \cup {s \o <<c>> : s \in Strings(alphabet, n - 1), c \in alphabet}

ShortLines == Strings({"m", ":", " ", "1"}, MaxShort)

\* Lines with fewer than two separators that are longer than the short ones
PlainLines ==
    {error \o separator \o <<"m">>, <<"m", " ", " ", "[", "t", "]">>,
     <<"/", "a", ":", "1", ":", "2">>, note \o separator \o <<"m", " ", " ", "[", "a", "-", "b", "]">>,
     <<"m", " ", " ", "[", "t", "]", " ">>}

ReportLines(win32) ==
    {Render(w) : w \in WellFormed(win32)} \cup OddLines \cup ShortLines \cup PlainLines

\* Reports of two lines
TwoLines(win32) ==
    LET firsts == {Render(w) : w \in {v \in WellFormed(win32) : v.line = 1 /\ v.col = 0
                                        /\ v.severity = error /\ v.tag = <<>>}}
                  \cup {<<"m">>, <<>>, <<"/", "a", ":", "x">> \o separator \o error \o separator \o <<"m">>}
    IN  {a \o <<"\n">> \o b : a \in firsts, b \in firsts}

Reports(win32) == ReportLines(win32) \cup TwoLines(win32)

DefaultLines == {7}

----------------------------------------------------------------------------
(* The report parser applied to one report, then to its own contents       *)

Versions == {"__init__", "extension"}

\* parse_comments of either generation
ParseWith(version, comments, default_file, default_line, win32) ==
    IF version = "__init__"
    THEN idletypecheck_parse_comments(comments, default_file, default_line)
    ELSE parse_comments(comments, default_file, default_line, win32)

\* The comments of a files dictionary, and the text of one
AllComments(files) == UNION {{files[f][i] : i \in 1..Len(files[f])} : f \in DOMAIN files}
ContentsOf(version, c) == IF version = "__init__" THEN c.message ELSE c.contents

Idle == <<>>

\* __init__.py never reads sys.platform: win32 is an input of extension.py only
InitParse ==
    /\ pc = "start"
    /\ \E version \in Versions, win32 \in BOOLEAN, line \in DefaultLines :
         /\ version = "__init__" => ~win32
         /\ \E comments \in Reports(win32) :
              input = [version |-> version, comments |-> comments,
                       default_file |-> OpenFile(win32), default_line |-> line,
                       win32 |-> win32]
    /\ output = Idle
    /\ text = Idle /\ before = Idle /\ original = Idle /\ previous = Idle
    /\ steps = 0
    /\ saved = Idle /\ undo = Idle /\ calls = Idle

Parse ==
    /\ pc = "start"
    /\ pc' = "parsed"
    /\ output' = ParseWith(input.version, input.comments, input.default_file,
                           input.default_line, input.win32)
    /\ steps' = steps + 1
    /\ UNCHANGED <<input, text, before, original, previous, window>>

\* The contents of the only comment of the result is parsed as a report
Reparse ==
    /\ pc = "parsed"
    /\ ~Raised(output)
    /\ Cardinality(AllComments(output.value)) = 1
    /\ \E c \in AllComments(output.value) :
         /\ input' = [input EXCEPT !.comments = ContentsOf(input.version, c)]
         /\ output' = ParseWith(input.version, ContentsOf(input.version, c),
                                input.default_file, input.default_line, input.win32)
    /\ pc' = "reparsed"
    /\ previous' = [input |-> input, output |-> output]
    /\ steps' = steps + 1
    /\ UNCHANGED <<text, before, original, window>>

\* self.add_mypy_messages(self.editwin.getlineno(), normal_report, file), as
\* type_check_add_response_comments calls it, and with add_all_override
AddMypyMessages ==
    /\ pc = "start"
    /\ input.version = "extension"
    /\ \E add_all_override \in BOOLEAN :
         \E done \in {add_mypy_messages(input.default_line, input.comments,
                                        input.default_file, add_all_override,
                                        input.default_file, input.win32)} :
             output' = [raised |-> done.raised, handed |-> done.handed,
                        add_all_override |-> add_all_override]
    /\ pc' = "add_mypy_messages"
    /\ steps' = steps + 1
    /\ UNCHANGED <<input, text, before, original, previous, window>>

NextParse == Parse \/ Reparse \/ AddMypyMessages

SpecParse == InitParse /\ [][NextParse]_vars

\* A single report line that is not blank and has fewer than two ": "
Unlocated(l) == ~contains(l, <<"\n">>) /\ strip(l) # <<>> /\ count(l, separator) < 2

\* l is body + "  [" + tag + "]"
EndsInTag(l) ==
    /\ l # <<>> /\ l[Len(l)] = "]"
    /\ rfind(l, <<" ", " ", "[">>) >= 0
    /\ rfind(l, <<" ", " ", "[">>) + 4 < Len(l) + 1
    /\ \A i \in (rfind(l, <<" ", " ", "[">>) + 4)..(Len(l) - 1) : l[i] \in Lowercase \cup {"-"}
TagOf(l) == SubSeq(l, rfind(l, <<" ", " ", "[">>) + 4, Len(l) - 1)
BodyOf(l) == upto(l, rfind(l, <<" ", " ", "[">>))

\* The result is one comment, at the default file and line, with these contents
OneUnlocated(contents) ==
    /\ ~Raised(output)
    /\ DOMAIN output.value = {input.default_file}
    /\ Len(output.value[input.default_file]) = 1
    /\ output.value[input.default_file][1].file = input.default_file
    /\ output.value[input.default_file][1].line = input.default_line
    /\ ContentsOf(input.version, output.value[input.default_file][1]) = contents

OneLocated(w, contents) ==
    /\ ~Raised(output)
    /\ DOMAIN output.value = {w.path}
    /\ Len(output.value[w.path]) = 1
    /\ output.value[w.path][1].file = w.path
    /\ output.value[w.path][1].line = w.line
    /\ output.value[w.path][1].column = w.col
    /\ ContentsOf(input.version, output.value[w.path][1]) = contents

\* C5 as claimed: "path:line:col: severity: text  [tag]" yields one comment
\* with file = path, line = line, column = col and contents
\* "[tag] severity: text".
C5_BracketedTag ==
    pc = "parsed" =>
        \A w \in WellFormed(input.win32) :
            (input.comments = Render(w) /\ w.tag # <<>>) =>
                OneLocated(w, <<"[">> \o w.tag \o <<"]", " ">> \o w.severity
                              \o separator \o w.text)

\* C5 as amended: the contents are "tag severity: text", the tag without its
\* brackets.
C5_WellFormed ==
    pc = "parsed" =>
        \A w \in WellFormed(input.win32) :
            (input.comments = Render(w) /\ w.tag # <<>>) =>
                OneLocated(w, w.tag \o <<" ">> \o w.severity \o separator \o w.text)

C5_Witness ==
    /\ pc = "parsed" /\ ~Raised(output)
    /\ \E w \in WellFormed(input.win32) :
         input.comments = Render(w) /\ w.tag # <<>> /\ w.line = 10 /\ w.col = 3

\* The report line that was parsed before its contents were parsed again
FirstLine == previous.input.comments

\* C6 as claimed: the contents of the comment of a well-formed located line,
\* parsed as a report line, yield a comment with file = default_file and
\* line = default_line.
C6_NoFalseLocation ==
    (pc = "reparsed" /\ \E w \in WellFormed(input.win32) : FirstLine = Render(w)) =>
        /\ ~Raised(output)
        /\ \A c \in AllComments(output.value) :
             c.file = input.default_file /\ c.line = input.default_line

\* C6 as amended: the re-parsed comment always has line = default_line; it has
\* file = default_file when the free text holds no ": ". When the free text
\* holds ": ", "tag severity" is taken as the file name (extension.py on
\* win32 raises ValueError, finding no drive letter).
C6_Reparse ==
    pc = "reparsed" =>
        \A w \in WellFormed(input.win32) :
            FirstLine = Render(w) =>
                /\ ~Raised(output) =>
                     \A c \in AllComments(output.value) : c.line = input.default_line
                /\ ~contains(w.text, separator) =>
                     /\ ~Raised(output)
                     /\ \A c \in AllComments(output.value) : c.file = input.default_file
                /\ contains(w.text, separator) =>
                     IF input.version = "extension" /\ input.win32
                     THEN Raised(output)
                     ELSE /\ ~Raised(output)
                          /\ \A c \in AllComments(output.value) :
                               c.file = (IF w.tag = <<>> THEN <<>> ELSE w.tag \o <<" ">>)
                                        \o w.severity

C6_Witness ==
    /\ pc = "reparsed" /\ ~Raised(output)
    /\ \E w \in WellFormed(input.win32) :
         FirstLine = Render(w) /\ contains(w.text, separator) /\ w.tag # <<>>

\* C7 as claimed: parse_comments returns a result for every report; a line
\* with two or more ": " whose location prefix has a field that is no number
\* becomes an unlocated comment at default_file/default_line holding the
\* whole line.
C7_NeverFails ==
    pc = "parsed" =>
        /\ ~Raised(output)
        /\ \A w \in OddWheres, t \in OddTexts :
             (input.comments = w \o separator \o error \o separator \o t
              /\ \E field \in {<<"x">>} : contains(w, <<":">> \o field)) =>
                 /\ DOMAIN output.value = {input.default_file}
                 /\ output.value[input.default_file][1].line = input.default_line

\* The comments add_mypy_messages handed on for insertion
Handed == UNION {{output.handed[f][i] : i \in 1..Len(output.handed[f])} :
                    f \in DOMAIN output.handed}

\* The files the report of the run has messages for
ReportFiles ==
    DOMAIN parse_comments(input.comments, input.default_file, input.default_line,
                          input.win32).value

\* C9: in a run without add_all_override every comment handed on for
\* insertion has file = the path of the open file; a file of the report other
\* than the open one has none of its comments handed on, only a comment
\* "Another file has errors: <file>" whose file is the open file.
C9_OnlyOpenFile ==
    (pc = "add_mypy_messages" /\ ~output.add_all_override /\ ~Raised(output)) =>
        /\ DOMAIN output.handed = {input.default_file}
        /\ \A c \in Handed : c.file = input.default_file
        /\ \A f \in ReportFiles \ {input.default_file} :
             \E c \in Handed :
                 c.file = input.default_file /\ c.contents = another_file \o repr(f)

C9_Witness ==
    /\ pc = "add_mypy_messages" /\ ~output.add_all_override /\ ~Raised(output)
    /\ Cardinality(ReportFiles) = 2 /\ input.default_file \in ReportFiles
    /\ Cardinality(Handed) = 2

----------------------------------------------------------------------------
(* The editor session: one buffer and the report mypy gives for its file    *)

MaxLines == 3
MaxSteps == 2

\* Buffer lines: empty, code, indented code, a comment of an earlier run
LineTexts ==
    {<<>>, <<"x">>, <<" ", " ", "y">>, comment \o error \o separator \o <<"m">>}

RECURSIVE Buffers(_)
Buffers(n) ==
    IF n = 1 THEN {<<l>> : l \in LineTexts}
    ELSE Buffers(n - 1) \cup {b \o <<l>> : b \in {c \in Buffers(n - 1) : Len(c) = n - 1},
                                           l \in LineTexts}

\* Lines of the report of mypy: messages for lines of the open file, one
\* with a column span, messages for other files, a line without location
Located(path, line, msg) ==
    path \o <<":">> \o str(line) \o <<":", "0">> \o separator \o error \o separator \o msg

SessionLines ==
    <<Located(OpenFile(FALSE), 1, <<"m">>), Located(OpenFile(FALSE), 2, <<"m">>),
      Located(OpenFile(FALSE), 2, <<"n">>),
      OpenFile(FALSE) \o <<":", "1", ":", "0", ":", "1", ":", "1", "5">> \o separator
         \o error \o separator \o <<"n">>,
      Located(<<"/", "b">>, 1, <<"m">>), Located(<<"/", "c">>, 2, <<"m">>),
      <<"m">>>>

\* Reports of no line, of one line and of two different lines
SessionReports ==
    {<<>>} \cup {SessionLines[i] \o <<"\n">> : i \in 1..Len(SessionLines)}
    \cup UNION {{SessionLines[i] \o <<"\n">> \o SessionLines[j] \o <<"\n">> :
                    j \in (i + 1)..Len(SessionLines)} : i \in 1..Len(SessionLines)}

\* The open file is saved; the cursor of the new window is in its first line
Init ==
    /\ pc = "start"
    /\ \E normal \in SessionReports :
         \E others \in Orders(other_files(normal, OpenFile(FALSE), OpenFile(FALSE), 1)) :
            input = [filename |-> OpenFile(FALSE), start_line |-> 1,
                     normal |-> normal, others |-> others]
    /\ text \in Buffers(MaxLines)
    /\ output = Idle
    /\ before = Idle /\ original = Idle /\ previous = Idle
    /\ steps = 0
    /\ saved = Idle /\ undo = Idle /\ calls = Idle

\* What the operation that ran last was called with and gave
Last == [pc |-> pc, start_line |-> input.start_line, output |-> output]

\* self.add_comments(file, start_line_no, normal), as type_check_event calls
\* it: start_line_no is editwin.getlineno(), the line the cursor is in
AddComments ==
    /\ steps < MaxSteps
    /\ \E start_line \in 1..Len(text) :
         \E done \in {add_comments(text, input.filename, input.filename, start_line,
                                    input.normal, input.others)} :
             /\ text' = done.buffer
             /\ output' = [result |-> done.result, calls |-> done.calls,
                           files |-> done.files]
             /\ input' = [input EXCEPT !.start_line = start_line]
    /\ pc' = "add_comments"
    /\ previous' = Last
    /\ original' = before
    /\ before' = text
    /\ steps' = steps + 1
    /\ UNCHANGED window

\* self.remove_all_type_comments(event)
RemoveAllTypeComments ==
    /\ steps < MaxSteps
    /\ \E done \in {remove_all_type_comments(text)} :
           /\ text' = done.buffer
           /\ output' = [result |-> done.result, calls |-> done.calls]
    /\ pc' = "remove_all_type_comments"
    /\ previous' = Last
    /\ original' = before
    /\ before' = text
    /\ steps' = steps + 1
    /\ UNCHANGED <<input, window>>

Next == AddComments \/ RemoveAllTypeComments

Spec == Init /\ [][Next]_vars

\* No line of the buffer is a comment of the extension
NoTypeComments(buffer) ==
    \A i \in 1..Len(buffer) : ~startswith(lstrip(buffer[i]), comment)

\* C1 as claimed: add_comments and then at once remove_all_type_comments
\* restores the buffer to exactly its original sequence of lines (here for a
\* buffer that held no comment of the extension before).
C1_RoundTrip ==
    (/\ pc = "remove_all_type_comments" /\ previous.pc = "add_comments"
     /\ ~Raised(previous.output.result) /\ NoTypeComments(original))
        => text = original

\* C2 as claimed: add_comments run twice in a row with the same report
\* inserts the comment block only once: the second run leaves the buffer as
\* the first run left it and reports no modified line.
C2_InsertsOnce ==
    (/\ pc = "add_comments" /\ previous.pc = "add_comments"
     /\ previous.start_line = input.start_line /\ ~Raised(output.result))
        => (text = before /\ output.result = Return(<<>>))

\* The files dictionary add_comments parsed from the report of the session
Files == output.files.value

\* The messages add_comments has for a line of the open file
Intended(line) ==
    LET messages == line_messages(Files, input.filename, input.start_line, input.others,
                                  line)
    IN  {messages[i] : i \in 1..Len(messages)}

\* The comment line of a message for a line of the buffer as it was
CommentLine(line, message) ==
    get_msg_line(get_line_indent(get_line(before, line)), message.message)

\* The comment line that an insert call of add_comment put into the widget
Inserted(call) == split(call.chars, <<"\n">>, 1)[1]

\* add_comment was asked for lines of the buffer only: no message is for a
\* line behind the last line, no pointer goes below the last line
InBuffer ==
    \A i \in 1..Len(output.calls) :
        output.calls[i].call = "insert" => output.calls[i].index <= Len(before)

\* Where the text of a line of the buffer is after the calls: every insert at
\* or above the line moves it down by one
Landed(line) ==
    line + Cardinality({i \in 1..Len(output.calls) :
                            /\ output.calls[i].call = "insert"
                            /\ output.calls[i].index <= line})

OnlyOtherFiles ==
    /\ ~Raised(output.files)
    /\ DOMAIN Files # {}
    /\ input.filename \notin DOMAIN Files

\* No line of the buffer is a notice about another file
NoNotice(buffer) == \A i \in 1..Len(buffer) : ~contains(buffer[i], another_file)

\* The notice about another file, as add_comment renders it for the start line
Notice(file) ==
    get_msg_line(get_line_indent(get_line(before, input.start_line)), another_file \o file)

----------------------------------------------------------------------------
(* The pointers for the messages of one line (__init__.py)                 *)

MaxColumn == 20

\* The line the messages are for and the line below it
CodeLines ==
    {<<"0", "1", "2", "3", "4", "5", "6", "7", "8", "9">>, <<" ", " ", "y", "=", "1">>, <<"x">>}
NextLines ==
    {<<>>, <<"x">>, <<" ", " ", "y">>,
     <<"0", "1", "2", "3", "4", "5", "6", "7", "8", "9", "0", "1", "2", "3", "4", "5", "6", "7",
       "8", "9">>}

\* Messages of line 1 with the spans [column, column_end]
Spans ==
    {m \in [line : {1}, column : {0, 2, 6}, column_end : {0, 4, 6, 15, 17, MaxColumn}] :
        m.column <= m.column_end}

InitPointers ==
    /\ pc = "start"
    /\ \E code \in CodeLines, below \in NextLines : text = <<code, below>>
    /\ \E a \in Spans, b \in Spans :
         input \in {[messages |-> <<a>>], [messages |-> <<a, b>>]}
    /\ output = Idle
    /\ before = Idle /\ original = Idle /\ previous = Idle
    /\ steps = 0
    /\ saved = Idle /\ undo = Idle /\ calls = Idle

\* pointers = self.get_pointers(messages)
GetPointers ==
    /\ pc = "start"
    /\ pc' = "get_pointers"
    /\ output' = get_pointers(text, input.messages)
    /\ steps' = steps + 1
    /\ UNCHANGED <<input, text, before, original, previous, window>>

NextPointers == GetPointers

SpecPointers == InitPointers /\ [][NextPointers]_vars

\* The offsets of the code line that the spans of the messages cover
Covered ==
    {o \in UNION {input.messages[i].column..input.messages[i].column_end :
                     i \in 1..Len(input.messages)} :
        o < Len(text[input.messages[1].line])}

\* The maximal runs of a set of offsets, the groups of "^" of a line
Runs(offsets) == Cardinality({o \in offsets : o - 1 \notin offsets})
CaretGroups(line) ==
    Cardinality({i \in 1..Len(line) : line[i] = "^" /\ (i = 1 \/ line[i - 1] # "^")})

\* C8 as claimed: get_pointers returns a caret line with one group of "^" for
\* every maximal run of offsets that the spans [column, column_end] of the
\* messages cover, and no pointer when every span is outside the code line.
C8_CaretGroups ==
    pc = "get_pointers" =>
        IF Covered = {} THEN output = None
        ELSE output # None /\ CaretGroups(output.message) = Runs(Covered)

----------------------------------------------------------------------------
(* The commands of the editor window: type_check_event of both generations *)
(* and remove_all_type_comments of __init__.py, statement by statement     *)

\* _HAS_MYPY is False: the message of the comment initial() adds
could_not_import ==
    <<"C", "o", "u", "l", "d", " ", "n", "o", "t", " ", "i", "m", "p", "o",
      "r", "t", " ", "m", "y", "p", "y", ".", " ", "P", "l", "e", "a", "s",
      "e", " ", "i", "n", "s", "t", "a", "l", "l", " ", "m", "y", "p", "y",
      " ", "a", "n", "d", " ", "r", "e", "s", "t", "a", "r", "t", " ", "I",
      "D", "L", "E", " ", "t", "o", " ", "u", "s", "e", " ", "t", "h", "i",
      "s", " ", "e", "x", "t", "e", "n", "s", "i", "o", "n", ".">>

\* "Error running mypy: "
error_running ==
    <<"E", "r", "r", "o", "r", " ", "r", "u", "n", "n", "i", "n", "g", " ",
      "m", "y", "p", "y", ":", " ">>

\* The exceptions a command can end with
TypeError == [raised |-> "TypeError"]
IndexError == [raised |-> "IndexError"]

\* The calls on the collaborators of the command
Call(name) == [call |-> name]
Asked(name, returned) == [call |-> name, returned |-> returned]

\* Mutant: an empty report is handled like any other
truthy_always(report) == TRUE

\* if errors: / if normal: / if not data: the truth value of a str
truthy(report) == report # <<>>

\* Mutant: the lines of the error report without the marker
error_lines_unmarked(errors) == splitlines(errors)

\* type_check_event: lines = errors.splitlines(); lines[0] = f"Error running
\* mypy: {lines[0]}" (add_extra_data with prefix="Error running mypy: ")
error_lines(errors) ==
    <<error_running \o splitlines(errors)[1]>> \o Tail(splitlines(errors))

\* type_check_event: {"file": file, "line": start_line_no, "message": message}
\* for every line of the block
RECURSIVE block_messages(_, _)
block_messages(start_line_no, lines) ==
    IF lines = <<>> THEN <<>>
    ELSE <<[line |-> start_line_no, message |-> Head(lines)]>>
         \o block_messages(start_line_no, Tail(lines))

\* type_check_event: for message in reversed(lines): self.add_comment({...},
\* len(lines))
add_error_comments(buffer, start_line_no, lines) ==
    add_block([buffer |-> buffer, comments |-> <<>>, calls |-> <<>>],
              block_messages(start_line_no, reversed(lines)), Len(lines),
              start_line_no)

\* initial: self.add_comment({"file": file, "line": start_line_no, "message":
\* "Could not import mypy. ..."}, start_line_no)
add_import_comment(buffer, start_line_no) ==
    add_comment(buffer, [line |-> start_line_no, message |-> could_not_import],
                start_line_no)

\* Mutant: the undo block is closed only when the command returns
undo_wrapper_no_finally(depth, outcome) ==
    IF Raised(outcome) THEN depth ELSE depth - 1

\* undo_wrapper: finally: self.text.undo_block_stop(), the number of undo
\* blocks open afterwards
undo_wrapper(depth, outcome) == depth - 1

\* Mutant: the check runs on the buffer as it is
must_save_never(is_saved) == FALSE

\* initial: if not self.files.get_saved()
must_save(is_saved) == ~is_saved

MaxCommands == 2

\* Buffers of the window: a file without and with a last newline, indented
\* code, the comment about the import above and below the first code line
CommandBuffers ==
    {<<<<"x">>>>, <<<<"x">>, <<>>>>, <<<<" ", " ", "y">>, <<"x">>, <<>>>>,
     <<comment \o could_not_import, <<"x">>, <<>>>>,
     <<<<"x">>, comment \o could_not_import, <<>>>>}

\* What mypy.api.run gives: the normal report, the error report, the exit
\* status
NormalReports ==
    {<<>>, Located(OpenFile(FALSE), 1, <<"m">>) \o <<"\n">>,
     Located(<<"/", "b">>, 1, <<"m">>) \o <<"\n">>,
     <<"/", "a", ":", "x">> \o separator \o error \o separator \o <<"m", "\n">>}
ErrorReports ==
    {<<>>, <<"e", "\n">>, <<"e", "\n", "f", "\n">>, <<"e", "\n", "y", "\n", "y", "z", "\n">>,
     <<"\n">>}
ExitStatuses == {0, 1}

\* self.files.filename of a window that has no file yet is None
Filenames == {None, <<"/", "a">>}

\* os.path.abspath(self.files.filename) of a window that has a file
abspath(filename) == filename

\* extension.py imports mypy.api without a guard: there _HAS_MYPY does not
\* exist and the module is only there when mypy is
InitCommand ==
    /\ pc = "idle"
    /\ \E version \in Versions, filename \in Filenames, has_mypy \in BOOLEAN :
         /\ version = "extension" => has_mypy
         /\ input = [version |-> version, filename |-> filename,
                     has_mypy |-> has_mypy, command |-> "", start_line |-> 0,
                     normal |-> <<>>, errors |-> <<>>, status |-> 0]
    /\ text \in CommandBuffers
    /\ saved \in BOOLEAN
    /\ undo = 0
    /\ calls = <<>>
    /\ output = Idle
    /\ before = Idle /\ original = Idle /\ previous = Idle
    /\ steps = 0

\* The command is entered: @undo_block calls self.text.undo_block_start() in
\* __init__.py; the handler of extension.py is not wrapped.  start_line_no and
\* what mypy gave are local to one run of the command
Enter(command) ==
    /\ pc = "idle"
    /\ steps < MaxCommands
    /\ input' = [input EXCEPT !.command = command, !.start_line = 0,
                              !.normal = <<>>, !.errors = <<>>, !.status = 0]
    /\ undo' = IF input.version = "__init__" THEN undo + 1 ELSE undo
    /\ calls' = IF input.version = "__init__" THEN <<Call("undo_block_start")>>
                ELSE <<>>
    /\ before' = text
    /\ output' = Idle
    /\ steps' = steps + 1
    /\ UNCHANGED <<text, original, previous, saved>>

\* <<type-check>>
TypeCheckEvent ==
    /\ Enter("type_check_event")
    /\ pc' = "initial"

\* The function of the command returns or raises
Leave(outcome, made) ==
    /\ pc' = "exit"
    /\ output' = outcome
    /\ calls' = calls \o made

\* self.initial() up to the save dialog
Initial ==
    /\ pc = "initial"
    /\ IF input.filename = None
       THEN /\ Leave(IF input.version = "__init__" THEN TypeError
                     ELSE Return("break"), <<>>)
            /\ UNCHANGED <<input, text, saved>>
       ELSE IF input.version = "__init__"
       THEN \E start_line_no \in 1..Len(text) :
              /\ input' = [input EXCEPT !.start_line = start_line_no]
              /\ IF ~input.has_mypy
                 THEN \E done \in {add_import_comment(text, start_line_no)} :
                        /\ text' = done.buffer
                        /\ saved' = (saved /\ done.calls = <<>>)
                        /\ Leave(Return("break"), done.calls \o <<Call("bell")>>)
                 ELSE /\ pc' = IF must_save(saved) THEN "ask_save_dialog" ELSE "check"
                      /\ calls' = calls \o <<Asked("get_saved", saved)>>
                      /\ UNCHANGED <<text, saved, output>>
       ELSE /\ pc' = IF must_save(saved) THEN "ask_save_dialog" ELSE "check"
            /\ calls' = calls \o <<Asked("get_saved", saved)>>
            /\ UNCHANGED <<input, text, saved, output>>
    /\ UNCHANGED <<before, original, previous, steps, undo>>

\* initial: if not self.ask_save_dialog(): self.text.bell(); return "break", ...
AskSaveDialog ==
    /\ pc = "ask_save_dialog"
    /\ \E confirm \in BOOLEAN :
         IF confirm
         THEN /\ pc' = "save"
              /\ calls' = calls \o <<Asked("askokcancel", TRUE)>>
              /\ UNCHANGED output
         ELSE Leave(Return("break"), <<Asked("askokcancel", FALSE), Call("bell")>>)
    /\ UNCHANGED <<input, text, before, original, previous, steps, saved, undo>>

\* initial: self.files.save(None), which sets the saved flag when the file
\* was written; then self.files.set_saved(True) in __init__.py and
\* if not self.files.get_saved(): return "break", file in extension.py
Save ==
    /\ pc = "save"
    /\ \E written \in BOOLEAN :
         IF input.version = "__init__"
         THEN /\ saved' = TRUE
              /\ pc' = "check"
              /\ calls' = calls \o <<Asked("save", written), Call("set_saved")>>
              /\ UNCHANGED output
         ELSE /\ saved' = written
              /\ IF written
                 THEN /\ pc' = "check"
                      /\ calls' = calls \o <<Asked("save", written),
                                             Asked("get_saved", written)>>
                      /\ UNCHANGED output
                 ELSE Leave(Return("break"),
                            <<Asked("save", written), Asked("get_saved", written)>>)
    /\ UNCHANGED <<input, text, before, original, previous, steps, undo>>

\* mypy.api.run(self.flags) / self.check(file)
Check ==
    /\ pc = "check"
    /\ \E normal \in NormalReports, errors \in ErrorReports, status \in ExitStatuses :
         input' = [input EXCEPT !.normal = normal, !.errors = errors,
                                !.status = status]
    /\ pc' = "respond"
    /\ calls' = calls \o <<[call |-> "run", saved |-> saved]>>
    /\ UNCHANGED <<output, text, before, original, previous, steps, saved, undo>>

\* __init__.py type_check_event after mypy.api.run: the error report as a
\* block of comments, or else the comments of the normal report, then the bell
RespondIdletypecheck ==
    IF truthy(input.errors)
    THEN IF splitlines(input.errors) = <<>>
         THEN Leave(IndexError, <<>>) /\ UNCHANGED <<text, saved>>
         ELSE \E done \in {add_error_comments(text, input.start_line,
                                              error_lines(input.errors))} :
                /\ text' = done.buffer
                /\ saved' = (saved /\ done.calls = <<>>)
                /\ Leave(Return("break"), done.calls \o <<Call("bell")>>)
    ELSE IF truthy(input.normal)
    THEN \E others \in Orders(other_files(input.normal, abspath(input.filename),
                                          abspath(input.filename), input.start_line)) :
           \E done \in {add_comments(text, abspath(input.filename),
                                     abspath(input.filename), input.start_line,
                                     input.normal, others)} :
             /\ text' = done.buffer
             /\ saved' = (saved /\ done.calls = <<>>)
             /\ IF Raised(done.result) THEN Leave(ValueError, <<>>)
                ELSE Leave(Return("break"), done.calls \o <<Call("bell")>>)
    ELSE Leave(Return("break"), <<Call("bell")>>) /\ UNCHANGED <<text, saved>>

\* add_mypy_messages: one call of self.add_type_comments_for_file for every
\* file it works on
HandedCalls(handed) ==
    IF DOMAIN handed = {} THEN <<>>
    ELSE <<[call |-> "add_type_comments_for_file", handed |-> handed]>>

\* add_extra_data(file, start_line, data, prefix): the call of
\* self.add_comment_block it makes
add_extra_data(start_line, data) ==
    IF ~truthy(data) \/ splitlines(data) = <<>> THEN <<>>
    ELSE <<[call |-> "add_comment_block", line |-> start_line,
            lines |-> error_lines(data)]>>

\* extension.py type_check_add_response_comments(response, file); the buffer
\* is edited by utils.BaseExtension, behind the calls that are recorded
RespondExtension ==
    /\ UNCHANGED <<text, saved>>
    /\ \E lineno \in 1..Len(text) :
         \E done \in {IF truthy(input.normal)
                      THEN add_mypy_messages(lineno, input.normal,
                                             abspath(input.filename), FALSE,
                                             abspath(input.filename), FALSE)
                      ELSE [raised |-> "", handed |-> <<>>]} :
            IF Raised(done) THEN Leave(ValueError, <<>>)
            ELSE Leave(Return("break"),
                       HandedCalls(done.handed) \o add_extra_data(lineno, input.errors)
                       \o <<Call("bell")>>)

Respond ==
    /\ pc = "respond"
    /\ IF input.version = "__init__" THEN RespondIdletypecheck ELSE RespondExtension
    /\ UNCHANGED <<input, before, original, previous, steps, undo>>

\* <<remove-all-type-comments>>, not bound by __init__ (the name does not end
\* in _event) but a method of the extension that other code can call
RemoveAllEvent ==
    /\ Enter("remove_all_type_comments")
    /\ pc' = "remove"

\* __init__.py remove_all_type_comments(event); extension.py hands the work to
\* self.remove_all_extension_comments()
RemoveAll ==
    /\ pc = "remove"
    /\ IF input.version = "__init__"
       THEN \E done \in {remove_all_type_comments(text)} :
              /\ text' = done.buffer
              /\ saved' = (saved /\ done.calls = <<>>)
              /\ Leave(done.result, done.calls)
       ELSE /\ Leave(Return("break"), <<Call("remove_all_extension_comments")>>)
            /\ UNCHANGED <<text, saved>>
    /\ UNCHANGED <<input, before, original, previous, steps, undo>>

\* The function of the command is left: undo_wrapper closes the undo block,
\* then the value or the exception reaches the event loop
Finally ==
    /\ pc = "exit"
    /\ pc' = "idle"
    /\ IF input.version = "__init__"
       THEN /\ undo' = undo_wrapper(undo, output)
            /\ calls' = IF undo' < undo THEN calls \o <<Call("undo_block_stop")>>
                        ELSE calls
       ELSE UNCHANGED <<undo, calls>>
    /\ UNCHANGED <<input, output, text, before, original, previous, steps, saved>>

NextCommand ==
    \/ TypeCheckEvent \/ Initial \/ AskSaveDialog \/ Save \/ Check \/ Respond
    \/ RemoveAllEvent \/ RemoveAll \/ Finally

SpecCommand == InitCommand /\ [][NextCommand]_vars

\* The command has ended and no other has begun
CommandDone(command) == pc = "idle" /\ input.command = command

\* The calls of one name among the calls of the command
CallsOf(names) == {i \in 1..Len(calls) : calls[i].call \in names}

\* The command ran mypy, and input holds what mypy gave
Ran == CallsOf({"run"}) # {}

\* The calls that edit the buffer: of the widget in __init__.py, of
\* utils.BaseExtension in extension.py
Edits == CallsOf({"insert", "delete", "add_type_comments_for_file", "add_comment_block"})

\* C11: when mypy gives an empty normal report and an empty error report,
\* parse_comments of the report yields no comment, the type-check command
\* inserts no comment, returns "break" and leaves the buffer as it was.
C11_EmptyReport ==
    (CommandDone("type_check_event") /\ Ran /\ input.normal = <<>>
     /\ input.errors = <<>>) =>
        /\ output = Return("break")
        /\ text = before
        /\ Edits = {}
        /\ \A line \in 1..Len(text) :
             LET parsed == ParseWith(input.version, input.normal,
                                     abspath(input.filename), line, FALSE)
             IN  ~Raised(parsed) /\ DOMAIN parsed.value = {}

C11_Witness ==
    /\ CommandDone("type_check_event") /\ Ran /\ input.normal = <<>>
    /\ input.errors = <<>> /\ input.status = 1 /\ input.version = "__init__"
    /\ CallsOf({"bell"}) # {} /\ steps = 2

\* The commands __init__.py wraps in @undo_block
Wrapped == {"type_check_event", "remove_all_type_comments"}

\* C12: in __init__.py a command that opens an undo block closes it exactly
\* once when it ends, whether it returns, returns early or raises; every edit
\* of the buffer is made between the opening and the closing, and no undo
\* block is open while no command runs.
C12_UndoScoped ==
    input.version = "__init__" =>
        /\ undo = (IF pc = "idle" THEN 0 ELSE 1)
        /\ pc # "idle" =>
             /\ CallsOf({"undo_block_start"}) = {1}
             /\ CallsOf({"undo_block_stop"}) = {}
        /\ (pc = "idle" /\ input.command \in Wrapped) =>
             /\ CallsOf({"undo_block_start"}) = {1}
             /\ CallsOf({"undo_block_stop"}) = {Len(calls)}
        /\ \A i \in Edits : 1 < i /\ \A j \in CallsOf({"undo_block_stop"}) : i < j

C12_Witness ==
    /\ pc = "idle" /\ input.command = "type_check_event"
    /\ input.version = "__init__" /\ steps = 2
    /\ Raised(output) /\ undo = 0
    /\ CallsOf({"undo_block_stop"}) # {}

\* The lines of the error report of mypy, the marker in front of the first
FailureLines ==
    [i \in 1..Len(splitlines(input.errors)) |->
        (IF i = 1 THEN error_running ELSE <<>>) \o splitlines(input.errors)[i]]

\* The comment of a line of the error report, as it is rendered for the line
\* the cursor was in
FailureComment(i) == CommentLine(input.start_line, [message |-> FailureLines[i]])

\* The insert calls of the command
Inserts == CallsOf({"insert"})

\* No comment of the error report is one that add_comment takes for a
\* duplicate: its text without indentation is neither part of a later comment
\* of the block nor of one of the lines of the buffer that add_comment reads
NoDuplicate ==
    \A i \in 1..Len(FailureLines) :
        /\ \A j \in (i + 1)..Len(FailureLines) :
             ~contains(FailureComment(j), get_msg_line(0, FailureLines[i]))
        /\ \A l \in (input.start_line - Len(FailureLines))..input.start_line :
             ~contains(get_line(before, l), get_msg_line(0, FailureLines[i]))

\* C13 as claimed: when mypy gives a non-empty error report or a nonzero exit
\* status, the type-check command inserts at the cursor line a block of
\* comments, one for each line of the failure output, the first of them marked
\* "Error running mypy: ", and runs mypy once.
C13_FailureSurfaced ==
    (CommandDone("type_check_event") /\ Ran
     /\ (input.errors # <<>> \/ input.status # 0)) =>
        /\ Cardinality(CallsOf({"run"})) = 1
        /\ IF input.version = "__init__"
           THEN /\ Cardinality(Inserts) = Len(FailureLines)
                /\ \E i \in Inserts :
                     /\ calls[i].index = input.start_line
                     /\ startswith(lstrip(calls[i].chars), comment \o error_running)
           ELSE \E i \in CallsOf({"add_comment_block"}) :
                     /\ Len(calls[i].lines) = Len(splitlines(input.errors))
                     /\ startswith(calls[i].lines[1], error_running)

\* C13 as amended: when mypy gives a non-empty error report, whatever the exit
\* status, the command runs mypy once and hands every line of the error report,
\* the first marked "Error running mypy: ", to be inserted at the cursor line:
\* in __init__.py each becomes a comment directly above the text of the cursor
\* line, in the order of the report, except those add_comment takes for
\* duplicates (an empty line is added at the end of the buffer when the cursor
\* line is its last line); in extension.py they are the lines of one call of
\* add_comment_block, made after the normal report is dealt with and not made
\* when that raises ValueError.
C13_ErrorReportSurfaced ==
    (CommandDone("type_check_event") /\ Ran /\ input.errors # <<>>) =>
        /\ Cardinality(CallsOf({"run"})) = 1
        /\ IF input.version = "__init__"
           THEN /\ output = Return("break")
                /\ \A i \in Inserts :
                     /\ calls[i].index = input.start_line
                     /\ \E l \in 1..Len(FailureLines) :
                          Inserted(calls[i]) = FailureComment(l)
                /\ NoDuplicate =>
                     text = upto(before, input.start_line - 1)
                            \o [i \in 1..Len(FailureLines) |-> FailureComment(i)]
                            \o from(before, input.start_line - 1)
                            \o (IF input.start_line = Len(before) THEN <<<<>>>>
                                ELSE <<>>)
           ELSE IF \E line \in 1..Len(text) :
                      Raised(parse_comments(input.normal, abspath(input.filename),
                                            line, FALSE))
           THEN output = ValueError /\ CallsOf({"add_comment_block"}) = {}
           ELSE /\ output = Return("break")
                /\ Cardinality(CallsOf({"add_comment_block"})) = 1
                /\ \A i \in CallsOf({"add_comment_block"}) :
                     calls[i].lines = FailureLines

C13_Witness ==
    /\ CommandDone("type_check_event") /\ Ran /\ input.version = "__init__"
    /\ Len(FailureLines) = 2 /\ NoDuplicate /\ input.status = 0
    /\ input.normal # <<>> /\ input.start_line = 2 /\ Len(text) = 5

\* C14 as claimed: every run of the type-check command rings the bell at least
\* once before it ends, on every path.
C14_BellOnEveryPath ==
    CommandDone("type_check_event") => CallsOf({"bell"}) # {}

\* The calls of one name that gave this answer
Answered(name, returned) == {i \in CallsOf({name}) : calls[i].returned = returned}

NoticeAbove ==
    \E l \in 0..input.start_line :
        contains(get_line(before, l), get_msg_line(0, could_not_import))

\* C16 as claimed: when mypy could not be imported, every run of the
\* type-check command returns "break" without running mypy; it inserts the
\* comment about the import once at the cursor line, and inserts nothing when
\* that comment is already in the cursor line or a line above it.
C16_CheckerUnavailable ==
    (CommandDone("type_check_event") /\ input.version = "__init__"
     /\ ~input.has_mypy) =>
        /\ output = Return("break")
        /\ ~Ran
        /\ IF NoticeAbove THEN Inserts = {} /\ text = before
           ELSE /\ Cardinality(Inserts) = 1
                /\ \A i \in Inserts :
                     /\ calls[i].index = input.start_line
                     /\ Inserted(calls[i])
                        = CommentLine(input.start_line, [message |-> could_not_import])
                /\ text[input.start_line]
                   = CommentLine(input.start_line, [message |-> could_not_import])

----------------------------------------------------------------------------
(* One edit of a buffer: add_comment, add_comments with a report that has   *)
(* several messages for one line, remove_all_type_comments                 *)

MaxEdits == 1
MaxExistUp == 2

\* Buffer lines as in the session, and code with a form feed in it and code
\* indented by a tab
EditLineTexts == LineTexts \cup {<<"x", "\f", "y">>, <<"\t", "x">>}

RECURSIVE EditBuffers(_)
EditBuffers(n) ==
    IF n = 1 THEN {<<l>> : l \in EditLineTexts}
    ELSE EditBuffers(n - 1)
         \cup {b \o <<l>> : b \in {c \in EditBuffers(n - 1) : Len(c) = n - 1},
                            l \in EditLineTexts}

\* A line of the report with the span of columns 0 to 15
Spanned(path, line, msg) ==
    path \o <<":">> \o str(line) \o <<":", "0", ":">> \o str(line) \o <<":", "1", "5">>
    \o separator \o error \o separator \o msg

\* The lines of a report, each with its newline
RECURSIVE ReportOf(_)
ReportOf(lines) ==
    IF lines = <<>> THEN <<>> ELSE Head(lines) \o <<"\n">> \o ReportOf(Tail(lines))

\* Reports with several messages for one line of the open file: different
\* messages, a message that is the beginning of the next, of the one before,
\* the same message twice, three messages, a span that gives a pointer, a
\* message for another file
BatchReports ==
    {ReportOf(<<Located(OpenFile(FALSE), 1, <<"m">>), Located(OpenFile(FALSE), 1, <<"n">>)>>),
     ReportOf(<<Located(OpenFile(FALSE), 1, <<"m">>), Located(OpenFile(FALSE), 1, <<"m", "n">>)>>),
     ReportOf(<<Located(OpenFile(FALSE), 1, <<"m", "n">>), Located(OpenFile(FALSE), 1, <<"m">>)>>),
     ReportOf(<<Located(OpenFile(FALSE), 2, <<"m">>), Located(OpenFile(FALSE), 2, <<"m">>)>>),
     ReportOf(<<Located(OpenFile(FALSE), 2, <<"m">>), Located(OpenFile(FALSE), 2, <<"n">>),
                Located(OpenFile(FALSE), 2, <<"m">>)>>),
     ReportOf(<<Spanned(OpenFile(FALSE), 1, <<"n">>), Located(OpenFile(FALSE), 1, <<"m">>)>>),
     ReportOf(<<Located(OpenFile(FALSE), 2, <<"m">>), Spanned(OpenFile(FALSE), 2, <<"n">>)>>),
     ReportOf(<<Located(OpenFile(FALSE), 1, <<"m">>), Located(<<"/", "b">>, 1, <<"m">>)>>)}

\* Messages add_comment is called with: the text of the comment of LineTexts,
\* the beginning of it, another text
EditMessages == {error \o separator \o <<"m">>, error \o separator, <<"n">>}

InitEdit ==
    /\ pc = "start"
    /\ \E normal \in BatchReports :
         \E others \in Orders(other_files(normal, OpenFile(FALSE), OpenFile(FALSE), 1)) :
            input = [filename |-> OpenFile(FALSE), start_line |-> 1,
                     normal |-> normal, others |-> others,
                     message |-> <<>>, max_exist_up |-> 0]
    /\ text \in EditBuffers(MaxLines)
    /\ output = Idle
    /\ before = Idle /\ original = Idle /\ previous = Idle
    /\ steps = 0
    /\ saved = Idle /\ undo = Idle /\ calls = Idle

\* self.add_comment(message, max_exist_up), the line of the message being any
\* line number a report can name
AddComment ==
    /\ steps < MaxEdits
    /\ \E message \in EditMessages, line \in 0..(Len(text) + 1),
          max_exist_up \in 0..MaxExistUp :
         \E done \in {add_comment(text, [line |-> line, message |-> message],
                                  max_exist_up)} :
             /\ text' = done.buffer
             /\ output' = [result |-> Return(done.added), calls |-> done.calls]
             /\ input' = [input EXCEPT !.start_line = line, !.message = message,
                                       !.max_exist_up = max_exist_up]
    /\ pc' = "add_comment"
    /\ previous' = Last
    /\ original' = before
    /\ before' = text
    /\ steps' = steps + 1
    /\ UNCHANGED window

\* self.add_comments(file, start_line_no, normal) on the buffer as it was loaded
AddReport == steps < MaxEdits /\ AddComments

\* self.remove_all_type_comments(event) on the buffer as it was loaded
RemoveTypeComments == steps < MaxEdits /\ RemoveAllTypeComments

NextEdit == AddComment \/ AddReport \/ RemoveTypeComments

SpecEdit == InitEdit /\ [][NextEdit]_vars

\* No line of the buffer holds the marker of the extension
NoMarker(buffer) == \A i \in 1..Len(buffer) : ~contains(buffer[i], comment)

\* The line of the buffer the messages of the report are for
Target == first_line(Files, input.filename, input.start_line)

\* The messages add_comments has for that line, in the order of the report
Batch == line_messages(Files, input.filename, input.start_line, input.others, Target)

\* The pointer get_pointers gives for them
Pointer == get_pointers(before, Batch)

\* add_comments was given several messages for one line of a buffer that held
\* no comment of the extension
SeveralForOneLine ==
    /\ pc = "add_comments" /\ ~Raised(output.result) /\ NoMarker(before)
    /\ Target \in 1..Len(before)
    /\ Len(Batch) >= 2

\* The messages of the batch with the pointer behind them
BatchWithPointer == IF Pointer = None THEN Batch ELSE Batch \o <<Pointer>>

\* C17 as claimed: after add_comments on a buffer that held no comment of the
\* extension, every comment of a line that has several is directly above the
\* code of the line, in the order of the report from top to bottom, the
\* pointer last.
C17_ReportOrder ==
    SeveralForOneLine =>
        /\ Target + Len(BatchWithPointer) <= Len(text)
        /\ \A i \in 1..Len(BatchWithPointer) :
             text[Target + i - 1] = CommentLine(Target, BatchWithPointer[i])
        /\ text[Target + Len(BatchWithPointer)] = before[Target]

\* The comment of the pointer, which add_comment renders for the line below
\* the code
PointerComment == CommentLine(Target + 1, Pointer)

\* The messages of the batch that are shown, those of the numbers in S: the
\* last one is, and one that is not has its text (marker and contents) inside
\* the comment of the next one that is
ShownAre(S) ==
    /\ Len(Batch) \in S
    /\ \A i \in (1..Len(Batch)) \ S :
         \E j \in S :
            /\ i < j /\ \A h \in S : i < h => j <= h
            /\ contains(CommentLine(Target, Batch[j]), get_msg_line(0, Batch[i].message))

\* C17 as amended: the messages of the line are inserted at the line from the
\* last to the first, so the ones that are inserted stand directly above the
\* code of the line in the order of the report; one is left out when its text
\* is inside the comment inserted just before it.  The pointer is inserted
\* before them at the line below: it stands directly below the code, and is
\* added to the end of the code line itself when that is the last line.
C17_ShownInReportOrder ==
    SeveralForOneLine =>
        \E S \in SUBSET (1..Len(Batch)) :
            /\ ShownAre(S)
            /\ upto(text, Target - 1) = upto(before, Target - 1)
            /\ \A k \in 1..Cardinality(S) :
                 text[Target + k - 1] = CommentLine(Target, Batch[sorted(S)[k]])
            /\ text[Target + Cardinality(S)]
               = (IF Pointer # None /\ Target = Len(before)
                  THEN before[Target] \o PointerComment ELSE before[Target])
            /\ (Pointer # None /\ Target < Len(before)) =>
                 /\ text[Target + Cardinality(S) + 1] = PointerComment
                 /\ text[Target + Cardinality(S) + 2] = before[Target + 1]
            /\ output.result
               = Return([k \in 1..(Cardinality(S) + (IF Pointer = None THEN 0 ELSE 1))
                           |-> Target])

C17_Witness ==
    /\ SeveralForOneLine /\ Len(Batch) = 3 /\ Len(output.result.value) = 3
    /\ Target = 2 /\ Len(before) = 3
    /\ text[2] = text[4] /\ text[2] # text[3]

\* The lines of a widget: one that holds nothing has one empty line
Widget(lines) == IF lines = <<>> THEN <<<<>>>> ELSE lines

\* The lines of a buffer that are not comments of the extension
OtherLines(buffer) == SelectSeq(buffer, LAMBDA l : ~startswith(lstrip(l), comment))

\* C18 as claimed: remove_all_type_comments deletes exactly the lines of the
\* buffer that, without their leading whitespace, start with "# typecheck: ",
\* and keeps every other line as it is and in its order; when no line is such
\* a comment it makes no delete and no insert.
C18_RemovesExactly ==
    pc = "remove_all_type_comments" =>
        /\ text = Widget(OtherLines(before))
        /\ OtherLines(before) = before => output.calls = <<>>

\* The lines add_comment looks into: the line of the message and the
\* max_exist_up lines above it
Window == (input.start_line - input.max_exist_up)..input.start_line

\* The comment is in the buffer already, as text inside one of these lines
Present ==
    \E l \in Window :
        /\ l \in 1..Len(before)
        /\ contains(before[l], get_msg_line(0, input.message))

\* The comment an insert call put into the widget is a pointer: no message of
\* the reports has a "^"
IsPointer(call) == \E k \in 1..Len(Inserted(call)) : Inserted(call)[k] = "^"

\* The insert calls add_comments made for a line: those of its messages at the
\* line, and the one of its pointer at the line below
InsertsFor(line) ==
    {i \in 1..Len(output.calls) :
        /\ output.calls[i].call = "insert"
        /\ output.calls[i].index = (IF IsPointer(output.calls[i]) THEN line + 1 ELSE line)}

\* The number of times a line is in the list add_comments returns
TimesReturned(line) ==
    Cardinality({i \in 1..Len(output.result.value) : output.result.value[i] = line})

\* C19 as claimed: add_comment(message, N) for a line of the buffer returns
\* False and changes nothing exactly when marker and contents are inside one
\* of the lines line-N .. line; otherwise it returns True and the buffer has
\* one line more, the comment with the indentation of the target line directly
\* above it, every other line as it was.  The list add_comments returns names
\* a line once for every comment inserted for it.
C19_AllOrNothing ==
    /\ (pc = "add_comment" /\ input.start_line \in 1..Len(before)) =>
         IF Present THEN output.result = Return(FALSE) /\ text = before
         ELSE /\ output.result = Return(TRUE)
              /\ text = upto(before, input.start_line - 1)
                        \o <<CommentLine(input.start_line, input)>>
                        \o from(before, input.start_line - 1)
    /\ (pc = "add_comments" /\ ~Raised(output.result)) =>
         \A line \in 0..(Len(before) + 1) :
             TimesReturned(line) = Cardinality(InsertsFor(line))

====
